---- MODULE Spec2Model ----
(***************************************************************************)
(* Model of nidhz_ultimate/utils/http_client.py: class HTTPClient.          *)
(*                                                                         *)
(* Spec: one client instance and one calling task.  A get()/post() call is *)
(* split at the points where the transport answers: the action Get/Post    *)
(* runs _request up to the first network exchange, each TransportAttempt   *)
(* is one exchange made by session.request (line 107) under the Retry      *)
(* strategy the constructor mounts (lines 33-50), and the step in which    *)
(* session.request returns or raises also runs the rest of _request        *)
(* (lines 108-123).                                                        *)
(*                                                                         *)
(* Durations are in tenths of a second (backoff_factor 0.5 s = 5).         *)
(*                                                                         *)
(* PaceSpec: a few worker tasks call the client at once; each is followed   *)
(* from its call through its pacing sleep to its exchange and its return.  *)
(*                                                                         *)
(* PoolSpec and CloseSpec: the worker tasks of a scan share the client;    *)
(* the connections of the route are counted (checked out, idle in the      *)
(* pool), one step per connection taken or given back.                     *)
(*                                                                         *)
(* SessionSpec: a scan session as nidhz.py runs it; a get()/post() call is *)
(* one step, seen through the request it sends and the client state it     *)
(* leaves.                                                                 *)
(***************************************************************************)
EXTENDS Integers, Sequences, FiniteSets, TLC

(* ------------------------------ bounds -------------------------------- *)
\* largest `retries` value a client is constructed with (the default is 3)
MaxRetries == 3
\* number of get()/post() calls made on the client in one behaviour
MaxCalls == 2
\* redirect hops session.request follows before TooManyRedirects
max_redirects == 1
\* worker tasks sharing the client (-t; one more than the pool keeps)
MaxTasks == 101
\* worker tasks in the runs where close() meets requests in flight
MaxCloseTasks == 3
\* outcomes a scan session collects
MaxResults == 2
\* worker tasks in the runs that follow each task through its pacing sleep
MaxPaceTasks == 3

(* ------------------------ constructor: __init__ ----------------------- *)
\* Retry(backoff_factor=0.5), in tenths of a second
backoff_factor == 5
\* variant: 404 listed among the statuses to retry
status_forcelist_with_404 == {404, 429, 500, 502, 503, 504}
\* Retry(status_forcelist=[429, 500, 502, 503, 504])
status_forcelist == {429, 500, 502, 503, 504}
\* Retry(allowed_methods=["GET", "POST", "HEAD"])
allowed_methods == {"GET", "POST", "HEAD"}
\* Retry(...) is built without raise_on_status, respect_retry_after_header,
\* backoff_max: they keep their defaults (True, True, 120 s)
raise_on_status == TRUE
respect_retry_after_header == TRUE
backoff_max == 1200
\* statuses for which the Retry strategy honours a Retry-After header
RETRY_AFTER_STATUS_CODES == {413, 429, 503}
\* statuses session.request follows when allow_redirects is set (line 102)
REDIRECT_STATI == {301, 302, 303, 307, 308}

\* HTTPAdapter(pool_maxsize=100, pool_block=False)
pool_maxsize == 100
pool_block == FALSE
\* HTTPClient(timeout=10), in seconds
DefaultTimeout == 10

\* the pool _get_random_user_agent chooses from (five strings, by index)
user_agents == {"ua1", "ua2", "ua3", "ua4", "ua5"}
\* the operator-supplied identity, when there is one
OperatorUA == "operator-ua"
\* a per-call headers={'User-Agent': ...} override; NoHeader when absent
CallerUA == "caller-ua"
NoHeader == "no-header"

\* a header value the caller passes
CallerValue == "caller-value"
\* header names: three of the defaults and one the defaults do not set
HeaderNames == {"User-Agent", "Accept", "Connection", "X-Probe"}
NoHeaders == [h \in HeaderNames |-> NoHeader]
\* default_headers, lines 53-61
default_headers(ua) ==
    [h \in HeaderNames |->
        IF h = "User-Agent" THEN ua
        ELSE IF h = "Accept" THEN "text/html,application/xhtml+xml"
        ELSE IF h = "Connection" THEN "keep-alive"
        ELSE NoHeader]
\* the headers= a caller can pass: any of the names, each with its own value
CallerHeaders == [HeaderNames -> {NoHeader, CallerValue}]
\* a per-call option in kwargs: << >> when the caller leaves it out,
\* <<v>> when the caller passes v
NoOptions ==
    [timeout |-> << >>, allow_redirects |-> << >>, verify |-> << >>,
     stream |-> << >>]
\* the options a caller can pass with a call
CallerOptions ==
    [timeout : {<< >>, <<5>>},
     allow_redirects : {<< >>, <<FALSE>>, <<TRUE>>},
     verify : {<< >>, <<FALSE>>, <<TRUE>>},
     stream : {<< >>, <<TRUE>>}]
\* no request sent yet
NoRequestOptions ==
    [timeout |-> 0, allow_redirects |-> FALSE, verify |-> FALSE,
     stream |-> FALSE]

\* proxy argument of the constructor
NoProxy == "no-proxy"
OperatorProxy == "http://127.0.0.1:8080"

\* 'User-Agent': user_agent or self._get_random_user_agent()
default_user_agent(user_agent) ==
    IF user_agent # NoHeader THEN {user_agent} ELSE user_agents

(* ------------------------------ values -------------------------------- *)
NoOutcome == [kind |-> "none", status |-> 0]
\* `return None`
Failure == [kind |-> "Failure", status |-> 0]
\* `return response`
Success(s) == [kind |-> "Success", status |-> s]

NoAnswer == [kind |-> "none", status |-> 0, retry_after |-> 0]

\* statuses the target answers with in the model
Statuses == {200, 302, 404, 413, 503}
\* what one network exchange can end in: a response (retry_after is the
\* Retry-After header in tenths of a second, 0 when the header is absent),
\* a connection-level failure, a timeout, or any other fault
Answers ==
    [kind : {"response"}, status : Statuses, retry_after : {0}]
    \cup [kind : {"response"}, status : Statuses \cap RETRY_AFTER_STATUS_CODES,
          retry_after : {10}]
    \cup [kind : {"conn_error", "connect_timeout", "read_timeout", "other"},
          status : {0}, retry_after : {0}]

RECURSIVE Pow2(_)
Pow2(n) == IF n = 0 THEN 1 ELSE 2 * Pow2(n - 1)

Min(a, b) == IF a < b THEN a ELSE b

VARIABLES
    retries,        \* self.retries, the Retry strategy's total
    delay,          \* self.delay
    session_ua,     \* self.session.headers['User-Agent']
    pool,           \* idle connections the adapter's pool keeps for the route
    close_called,   \* close() has been called on the client
    pc,             \* "idle": no call in progress; "sending": inside session.request
    calls,          \* calls made so far
    call_method,    \* method of the current/last call
    call_ua,        \* the call's headers override (NoHeader when none)
    call_after_close, \* the current/last call was made after close()
    call_defect,    \* what is wrong with the call's arguments: "none",
                    \* "url" (no absolute http/https URL), "option" (an
                    \* option session.request does not take)
    paced,          \* pacing sleeps of the current/last call
    method,         \* method of the current exchange (a redirect may change it)
    total,          \* Retry.total left for the current exchange
    history,        \* len(Retry.history) of the current exchange
    redirects,      \* redirect hops followed in the current call
    attempts,       \* network exchanges made in the current/last call
    hop_attempts,   \* network exchanges made for the current URL
    last_answer,    \* answer to the latest exchange of the call
    all_answers,    \* what every exchange of the call so far ended in:
                    \* "503", "timeout", "mixed" ("none": no exchange yet)
    sleeps,         \* delays slept between the exchanges for the current URL
    sent_ua,        \* User-Agent of the requests the call sends
    fault,          \* exception session.request raised in the last call
    raised,         \* an exception escaped _request to the caller
    outcome         \* what the last call returned

VARIABLES
    threads,        \* worker tasks that share the client
    in_use,         \* connections of the route checked out for an exchange
    stale,          \* checked-out connections whose pool close() has closed
    empty_slots,    \* None placeholders in the pool's queue
    conn_event      \* the latest operation on the pool's queue

VARIABLES
    timeout,        \* self.timeout
    verify_ssl,     \* self.verify_ssl
    proxies,        \* self.session.proxies
    session_headers, \* self.session.headers
    cookies,        \* self.session.cookies holds a cookie of the target
    call_headers,   \* headers= of the latest call
    sent_headers,   \* headers of the request the latest call sent
    call_opts,      \* timeout, allow_redirects, verify, stream of the
                    \* latest call's kwargs
    used_opts,      \* the same four as session.request was given them
    results,        \* outcomes returned to the scanner
    reports,        \* reports main has asked for: "none", "partial"
    main_pc         \* main: "scanning" (in scanner.run()), "completed",
                    \* "interrupted", "failed"

VARIABLES
    task_pc,        \* per worker task: "idle", "pacing" (in time.sleep),
                    \* "sending" (in session.request)
    task_calls      \* per worker task: calls it has made

config == <<retries, delay, session_ua>>
taskst == <<task_pc, task_calls>>
poolst == <<threads, in_use, stale, empty_slots, conn_event>>
settings == <<timeout, verify_ssl, proxies, session_headers>>
sessst == <<cookies, call_headers, sent_headers, call_opts, used_opts,
            results, reports, main_pc>>
callst == <<calls, call_method, call_ua, call_after_close, call_defect,
            paced, sent_ua>>
retryst == <<method, total, history, redirects, hop_attempts, sleeps>>
ghost == <<attempts, last_answer, all_answers>>
result == <<fault, raised, outcome>>
vars == <<config, pool, close_called, pc, callst, retryst, ghost, result,
          poolst, settings, sessst, taskst>>

(* ------------------------ the Retry strategy -------------------------- *)
\* Retry._is_method_retryable
is_method_retryable(m) == m \in allowed_methods

\* Retry.is_retry: is a received status to be retried.  A status of
\* status_forcelist always is; a 413, 429 or 503 that carries a Retry-After
\* header is while the total left is not 0
is_retry(m, status, has_retry_after, tot) ==
    /\ is_method_retryable(m)
    /\ \/ status \in status_forcelist
       \/ /\ tot # 0
          /\ respect_retry_after_header
          /\ has_retry_after
          /\ status \in RETRY_AFTER_STATUS_CODES

\* variant: no connection-level failure is retried
is_retryable_error_never(m, kind) == FALSE

\* connection errors and timeouts are consumed by Retry.increment
\* (read errors only for a method in allowed_methods)
is_retryable_error(m, kind) ==
    \/ kind \in {"conn_error", "connect_timeout"}
    \/ kind = "read_timeout" /\ is_method_retryable(m)

\* variant: one Retry object is used up by all the requests of the client
new_retry_shared(configured, left) == left

\* the Retry a request starts with: session.request begins each request
\* (and each redirect hop) from the adapter's max_retries, which
\* Retry.increment never changes (it returns a new object)
new_retry(configured, left) == configured

\* variant: a retry is not counted against the total
increment_keeps_total(tot) == tot

\* Retry.increment: one retry taken from the total
increment(tot) == tot - 1

\* variant: the budget is never used up
is_exhausted_never(tot) == FALSE

\* variant: the budget counts as used up one retry early
is_exhausted_one_early(tot) == tot <= 0

\* Retry.is_exhausted, of the total left after increment
is_exhausted(tot) == tot < 0

\* variant: the first retry is delayed like the others
get_backoff_time_first_delayed(n) ==
    Min(backoff_max, backoff_factor * Pow2(n - 1))

\* Retry.get_backoff_time, n = number of consecutive errors so far: nothing
\* after the first, then backoff_factor * 2^(n-1) up to backoff_max
get_backoff_time(n) ==
    IF n <= 1 THEN 0 ELSE Min(backoff_max, backoff_factor * Pow2(n - 1))

\* Retry.sleep: a Retry-After header is slept for instead of the backoff
sleep_time(ans, n) ==
    IF respect_retry_after_header /\ ans.kind = "response" /\ ans.retry_after > 0
    THEN [src |-> "retry_after", d |-> ans.retry_after]
    ELSE [src |-> "backoff", d |-> get_backoff_time(n)]

(* ------------------------- session.request ---------------------------- *)
\* variant: an identity is drawn from the pool again for each request
request_user_agent_rerolled(caller_ua, default_ua) ==
    IF caller_ua # NoHeader THEN caller_ua
    ELSE CHOOSE u \in user_agents : u # default_ua

\* headers sent: session.headers merged with the call's headers, the call's win
request_user_agent(caller_ua, default_ua) ==
    IF caller_ua # NoHeader THEN caller_ua ELSE default_ua

\* SessionRedirectMixin.rebuild_method
rebuild_method(m, status) ==
    IF status = 303 /\ m # "HEAD" THEN "GET"
    ELSE IF status = 302 /\ m # "HEAD" THEN "GET"
    ELSE IF status = 301 /\ m = "POST" THEN "GET"
    ELSE m

\* the exception the adapter raises when the Retry budget is used up
exhausted_exception(ans) ==
    IF ans.kind = "response" THEN "RetryError"
    ELSE IF ans.kind = "connect_timeout" THEN "Timeout"
    ELSE "ConnectionError"

(* ------------------------------ _request ------------------------------ *)
\* variant: the pacing sleep is taken whatever the delay
pacing_sleeps_always(d) == 1

\* `if self.delay > 0: time.sleep(self.delay)`: sleeps taken on entry
pacing_sleeps(d) == IF d > 0 THEN 1 ELSE 0

\* the exception session.request raises for a failure that is not retried
error_exception(kind) ==
    IF kind \in {"connect_timeout", "read_timeout"} THEN "Timeout"
    ELSE IF kind = "conn_error" THEN "ConnectionError"
    ELSE "Other"

\* variant: the final `except Exception` clause is missing
caught_requests_only(exc) ==
    exc \in {"Timeout", "ConnectionError", "TooManyRedirects", "RetryError",
             "InvalidURL"}

\* the except clauses of _request, lines 112-123
caught(exc) ==
    \/ exc = "Timeout"
    \/ exc = "ConnectionError"
    \/ exc = "TooManyRedirects"
    \/ exc \in {"RetryError", "InvalidURL"}     \* RequestException
    \/ exc = "Other"                            \* Exception

\* variant: a defect of the arguments is not noticed before sending
local_error_unchecked(defect) == "none"

\* what session.request raises before any exchange: preparing the request
\* rejects a URL without scheme or host and one that no adapter is mounted
\* for (a RequestException); an option it does not take or a value it
\* cannot use is a TypeError or ValueError
local_error(defect) ==
    IF defect = "option" THEN "Other"
    ELSE IF defect = "url" THEN "InvalidURL"
    ELSE "none"

\* session.request raised exc: the call ends in `return None`, or exc escapes
Raise(exc) ==
    /\ pc' = "idle"
    /\ fault' = exc
    /\ raised' = (raised \/ ~caught(exc))
    /\ outcome' = IF caught(exc) THEN Failure ELSE NoOutcome

\* session.request returned a response: `return response`
Return(status) ==
    /\ pc' = "idle"
    /\ fault' = "none"
    /\ raised' = raised
    /\ outcome' = Success(status)

\* the worker tasks followed one by one
Tasks == 1..MaxPaceTasks

\* no worker task is inside a call
TasksIdle ==
    /\ task_pc = [t \in Tasks |-> "idle"]
    /\ task_calls = [t \in Tasks |-> 0]

\* no worker task holds a connection
PoolIdle ==
    /\ in_use = 0
    /\ stale = 0
    /\ empty_slots = pool_maxsize
    /\ conn_event = "none"

\* the scan session has collected nothing yet
SessionIdle ==
    /\ cookies = FALSE
    /\ call_headers = NoHeaders
    /\ sent_headers = NoHeaders
    /\ call_opts = NoOptions
    /\ used_opts = NoRequestOptions
    /\ results = 0
    /\ reports = "none"
    /\ main_pc = "scanning"

\* HTTPClient(): timeout, proxy and verify_ssl at their defaults
DefaultSettings ==
    /\ timeout = DefaultTimeout
    /\ verify_ssl = FALSE
    /\ proxies = NoProxy
    /\ session_headers = default_headers(session_ua)

\* HTTPClient(delay, retries, user_agent)
Constructed ==
    /\ retries \in 0..MaxRetries
    /\ delay \in {0, 1}
    /\ \E user_agent \in {NoHeader, OperatorUA} :
           session_ua \in default_user_agent(user_agent)

\* no call has been made
CallIdle ==
    /\ pool = 0
    /\ close_called = FALSE
    /\ pc = "idle"
    /\ calls = 0
    /\ call_method = "GET"
    /\ call_ua = NoHeader
    /\ call_after_close = FALSE
    /\ call_defect = "none"
    /\ paced = 0
    /\ method = "GET"
    /\ total = retries
    /\ history = 0
    /\ redirects = 0
    /\ attempts = 0
    /\ hop_attempts = 0
    /\ last_answer = NoAnswer
    /\ all_answers = "none"
    /\ sleeps = << >>
    /\ sent_ua = NoHeader
    /\ fault = "none"
    /\ raised = FALSE
    /\ outcome = NoOutcome

Init ==
    /\ Constructed
    /\ DefaultSettings
    /\ threads = 1
    /\ TasksIdle
    /\ PoolIdle
    /\ SessionIdle
    /\ CallIdle

\* _request(method, url, **kwargs) up to the first network exchange
Request(m, defect, hdr_ua) ==
    /\ pc = "idle"
    /\ calls < MaxCalls
    /\ calls' = calls + 1
    /\ call_method' = m
    /\ call_ua' = hdr_ua
    /\ call_after_close' = close_called
    /\ call_defect' = defect
    /\ paced' = pacing_sleeps(delay)
    /\ method' = m
    /\ total' = new_retry(retries, total)
    /\ history' = 0
    /\ redirects' = 0
    /\ attempts' = 0
    /\ hop_attempts' = 0
    /\ last_answer' = NoAnswer
    /\ all_answers' = "none"
    /\ sleeps' = << >>
    /\ IF local_error(defect) = "none"
       THEN /\ sent_ua' = request_user_agent(hdr_ua, session_ua)
            /\ pc' = "sending"
            /\ fault' = "none"
            /\ outcome' = NoOutcome
            /\ raised' = raised
       ELSE /\ sent_ua' = NoHeader
            /\ Raise(local_error(defect))
    /\ UNCHANGED <<config, taskst, pool, close_called, poolst, settings, sessst>>

\* get(url, **kwargs)
\* the calls made: a sound call with or without a User-Agent of its own,
\* or a call with a defect
CallInputs ==
    {<<"none", hdr_ua>> : hdr_ua \in {NoHeader, CallerUA}}
    \cup {<<defect, NoHeader>> : defect \in {"url", "option"}}

Get == \E in \in CallInputs : Request("GET", in[1], in[2])

\* post(url, data, **kwargs)
Post == \E in \in CallInputs : Request("POST", in[1], in[2])

\* the exchange is retried: Retry.increment, Retry.sleep, urlopen again
RetryExchange(ans) ==
    /\ pc' = "sending"
    /\ total' = increment(total)
    /\ history' = history + 1
    /\ sleeps' = Append(sleeps, sleep_time(ans, history + 1))
    /\ UNCHANGED <<method, redirects, result>>

\* how an exchange ended, for all_answers
answer_class(ans) ==
    IF ans.kind = "response" /\ ans.status = 503 THEN "503"
    ELSE IF ans.kind \in {"connect_timeout", "read_timeout"} THEN "timeout"
    ELSE "mixed"

\* one network exchange of session.request, and what follows from its answer
TransportAttempt(ans) ==
    /\ pc = "sending"
    /\ total >= 0          \* a Retry whose total is below 0 has raised
    /\ attempts' = attempts + 1
    /\ hop_attempts' =
           IF ans.kind = "response" /\ ans.status \in REDIRECT_STATI
              /\ ~is_retry(method, ans.status, ans.retry_after > 0, total)
              /\ redirects < max_redirects
           THEN 0 ELSE hop_attempts + 1
    /\ last_answer' = ans
    /\ all_answers' = IF all_answers \in {"none", answer_class(ans)}
                       THEN answer_class(ans) ELSE "mixed"
    /\ pool' = IF ans.kind = "response" THEN 1 ELSE 0
    /\ IF ans.kind = "response"
       THEN IF is_retry(method, ans.status, ans.retry_after > 0, total)
            THEN IF is_exhausted(increment(total))
                 THEN IF raise_on_status
                      THEN /\ Raise(exhausted_exception(ans))
                           /\ UNCHANGED <<method, total, history, redirects, sleeps>>
                      ELSE /\ Return(ans.status)
                           /\ UNCHANGED <<method, total, history, redirects, sleeps>>
                 ELSE RetryExchange(ans)
            ELSE IF ans.status \in REDIRECT_STATI
                 THEN IF redirects >= max_redirects
                      THEN /\ Raise("TooManyRedirects")
                           /\ UNCHANGED <<method, total, history, redirects, sleeps>>
                      ELSE /\ pc' = "sending"
                           /\ redirects' = redirects + 1
                           /\ method' = rebuild_method(method, ans.status)
                           /\ total' = new_retry(retries, total)
                           /\ history' = 0
                           /\ sleeps' = << >>
                           /\ UNCHANGED result
                 ELSE /\ Return(ans.status)
                      /\ UNCHANGED <<method, total, history, redirects, sleeps>>
       ELSE IF is_retryable_error(method, ans.kind)
            THEN IF is_exhausted(increment(total))
                 THEN /\ Raise(exhausted_exception(ans))
                      /\ UNCHANGED <<method, total, history, redirects, sleeps>>
                 ELSE RetryExchange(ans)
            ELSE /\ Raise(error_exception(ans.kind))
                 /\ UNCHANGED <<method, total, history, redirects, sleeps>>
    /\ UNCHANGED <<config, taskst, close_called, callst, poolst, settings, sessst>>

Transport == \E ans \in Answers : TransportAttempt(ans)

\* close(): self.session.close() drops the pooled connections
Close ==
    /\ pc = "idle"
    /\ pool' = 0
    /\ close_called' = TRUE
    /\ UNCHANGED <<config, taskst, pc, callst, retryst, ghost, result,
                   poolst, settings, sessst>>

Next == Get \/ Post \/ Transport \/ Close

Spec == Init /\ [][Next]_vars

\* one client with a fixed identity and no pacing, for the progress of a call
LiveInit ==
    /\ Init
    /\ delay = 0
    /\ session_ua = OperatorUA

\* every network exchange ends: the transport answers, fails or times out
\* (kwargs.setdefault('timeout', self.timeout), line 101)
LiveSpec == LiveInit /\ [][Next]_vars /\ WF_vars(Transport)

(* ------------------ concurrent calls and the pacing ------------------- *)
\* variant: the pacing sleep is taken under a lock of the client
may_pace_locked(tpc, t) == \A u \in Tasks : tpc[u] # "pacing"

\* what a task waits for before its pacing sleep: _request takes no lock
\* and shares nothing before session.request (lines 96-104)
may_pace(tpc, t) == TRUE

\* task t calls get()/post(): _request up to time.sleep, or up to
\* session.request when there is no delay
TaskCall(t) ==
    /\ task_pc[t] = "idle"
    /\ task_calls[t] < MaxCalls
    /\ may_pace(task_pc, t)
    /\ task_pc' = [task_pc EXCEPT
                      ![t] = IF pacing_sleeps(delay) > 0 THEN "pacing"
                             ELSE "sending"]
    /\ task_calls' = [task_calls EXCEPT ![t] = @ + 1]
    /\ UNCHANGED <<config, pool, close_called, pc, callst, retryst, ghost,
                   result, poolst, settings, sessst>>

\* time.sleep(self.delay) returns: the task goes on to session.request
TaskWake(t) ==
    /\ task_pc[t] = "pacing"
    /\ task_pc' = [task_pc EXCEPT ![t] = "sending"]
    /\ UNCHANGED <<config, pool, close_called, pc, callst, retryst, ghost,
                   result, poolst, settings, sessst, task_calls>>

\* session.request returns or raises: the call returns
TaskReturn(t) ==
    /\ task_pc[t] = "sending"
    /\ task_pc' = [task_pc EXCEPT ![t] = "idle"]
    /\ UNCHANGED <<config, pool, close_called, pc, callst, retryst, ghost,
                   result, poolst, settings, sessst, task_calls>>

TaskStep == \E t \in Tasks : TaskCall(t) \/ TaskWake(t) \/ TaskReturn(t)

\* one client shared by MaxPaceTasks worker tasks
PaceInit ==
    /\ Constructed
    /\ retries = MaxRetries
    /\ session_ua = OperatorUA
    /\ DefaultSettings
    /\ threads = MaxPaceTasks
    /\ TasksIdle
    /\ PoolIdle
    /\ SessionIdle
    /\ CallIdle

PaceNext == TaskStep

PaceSpec == PaceInit /\ [][PaceNext]_vars

(* ------------------- the connection pool of a route -------------------- *)
(* HTTPAdapter(pool_connections=100, pool_maxsize=100, pool_block=False):   *)
(* the pool of a route is a LIFO queue of pool_maxsize entries, each an     *)
(* idle connection (counted in pool) or a placeholder (empty_slots).  An    *)
(* exchange takes the top entry and gives its connection back at the end.   *)
(* The top entry is known right after something was given back; otherwise   *)
(* any entry the queue holds may be on top.                                 *)

\* what the queue's get() can hand out, by the latest operation on the queue
pool_get_fifo(event, n_pool, n_empty) ==
    IF n_pool + n_empty = 0 THEN {"empty"}
    ELSE {k \in {"conn", "placeholder"} :
              \/ k = "conn" /\ n_pool > 0
              \/ k = "placeholder" /\ n_empty > 0}
pool_get(event, n_pool, n_empty) ==
    IF n_pool + n_empty = 0 THEN {"empty"}
    ELSE IF event = "gave_pooled" THEN {"conn"}
    ELSE IF event = "gave_placeholder" THEN {"placeholder"}
    ELSE {k \in {"conn", "placeholder"} :
              \/ k = "conn" /\ n_pool > 0
              \/ k = "placeholder" /\ n_empty > 0}

\* a worker task starts an exchange: _get_conn
AcquireConn ==
    /\ in_use + stale < threads
    /\ \E got \in pool_get(conn_event, pool, empty_slots) :
          /\ got = "empty" => ~pool_block  \* a blocking pool raises here
          /\ pool' = IF got = "conn" THEN pool - 1 ELSE pool
          /\ empty_slots' = IF got = "placeholder" THEN empty_slots - 1
                            ELSE empty_slots
          \* a placeholder or an empty queue: a new connection is opened
          /\ conn_event' = IF got = "conn" THEN "took_pooled" ELSE "took_new"
    /\ in_use' = in_use + 1
    /\ UNCHANGED <<threads, stale>>
    /\ UNCHANGED <<config, taskst, close_called, pc, callst, retryst, ghost, result,
                   settings, sessst>>

\* the exchange ends: _put_conn, with the connection if it can be used again
ReleaseConn(usable) ==
    /\ in_use > 0
    /\ in_use' = in_use - 1
    /\ IF pool + empty_slots < pool_maxsize
       THEN /\ pool' = IF usable THEN pool + 1 ELSE pool
            /\ empty_slots' = IF usable THEN empty_slots ELSE empty_slots + 1
            /\ conn_event' = IF usable THEN "gave_pooled"
                             ELSE "gave_placeholder"
       ELSE \* queue.Full: the connection is closed and dropped
            /\ conn_event' = IF usable THEN "gave_discarded" ELSE "gave_closed"
            /\ UNCHANGED <<pool, empty_slots>>
    /\ UNCHANGED <<threads, stale>>
    /\ UNCHANGED <<config, taskst, close_called, pc, callst, retryst, ghost, result,
                   settings, sessst>>

Release == \E usable \in BOOLEAN : ReleaseConn(usable)

\* close() on one task while other tasks have exchanges in flight:
\* session.close() empties and drops the pool; a later request gets a new one
PoolClose ==
    /\ pool' = 0
    /\ empty_slots' = pool_maxsize
    /\ stale' = stale + in_use
    /\ in_use' = 0
    /\ conn_event' = "closed"
    /\ close_called' = TRUE
    /\ UNCHANGED threads
    /\ UNCHANGED <<config, taskst, pc, callst, retryst, ghost, result,
                   settings, sessst>>

\* an exchange that was in flight at close() ends: close() left its
\* connection alone, so the response can still arrive; a retry of it finds
\* the pool closed (ClosedPoolError, caught at line 115)
StaleFinish(ok) ==
    /\ stale > 0
    /\ stale' = stale - 1
    /\ conn_event' = "gave_closed"
    /\ outcome' = IF ok THEN Success(200) ELSE Failure
    /\ UNCHANGED <<threads, in_use, empty_slots, pool>>
    /\ UNCHANGED <<config, taskst, close_called, pc, callst, retryst, ghost,
                   fault, raised, settings, sessst>>

StaleReturn == \E ok \in BOOLEAN : StaleFinish(ok)

\* one client shared by MaxTasks worker tasks
PoolInit ==
    /\ Constructed
    /\ retries = MaxRetries
    /\ delay = 0
    /\ session_ua = OperatorUA
    /\ DefaultSettings
    /\ threads = MaxTasks
    /\ TasksIdle
    /\ PoolIdle
    /\ SessionIdle
    /\ CallIdle

PoolNext == AcquireConn \/ Release

PoolSpec == PoolInit /\ [][PoolNext]_vars

\* a few worker tasks, one of which may call close() at any moment
CloseInit ==
    /\ Constructed
    /\ retries = MaxRetries
    /\ delay = 0
    /\ session_ua = OperatorUA
    /\ DefaultSettings
    /\ threads \in 1..MaxCloseTasks
    /\ TasksIdle
    /\ PoolIdle
    /\ SessionIdle
    /\ CallIdle

CloseNext == AcquireConn \/ Release \/ PoolClose \/ StaleReturn

CloseSpec == CloseInit /\ [][CloseNext]_vars

(* --------------------------- a scan session ---------------------------- *)
(* main() builds the scanner and calls scanner.run(); the scanner owns the  *)
(* client and calls get()/post() on it.  A call is one step here.           *)

\* the headers of the request session.request prepares: the caller's
\* headers= merged over session.headers
merge_setting_session_wins(request_headers, headers) ==
    [h \in HeaderNames |->
        IF headers[h] # NoHeader THEN headers[h] ELSE request_headers[h]]
merge_setting(request_headers, headers) ==
    [h \in HeaderNames |->
        IF request_headers[h] # NoHeader THEN request_headers[h]
        ELSE headers[h]]

\* variant: the client's value is assigned over the caller's
setdefault_overwrite(kwarg, default) == default

\* kwargs.setdefault(key, default): the caller's value when the key is
\* there, the default otherwise
setdefault(kwarg, default) == IF kwarg = << >> THEN default ELSE kwarg[1]

\* lines 101-104: the options session.request is called with
request_options(kwargs, tmo, verify) ==
    [timeout |-> setdefault(kwargs.timeout, tmo),
     allow_redirects |-> setdefault(kwargs.allow_redirects, TRUE),
     verify |-> setdefault(kwargs.verify, verify),
     stream |-> setdefault(kwargs.stream, FALSE)]

\* session.headers after a call: _request passes headers= on in kwargs and
\* never writes self.session.headers
session_headers_updated(request_headers, headers) ==
    merge_setting(request_headers, headers)
session_headers_after_request(request_headers, headers) == headers

\* session.cookies after a response: the Session keeps the cookies it is sent
cookies_after_response(jar, set_cookie) == jar \/ set_cookie

\* one get()/post() of the scanner, from call to return
ScanRequest(hdrs, opts, set_cookie, kept) ==
    /\ main_pc = "scanning"
    /\ results < MaxResults
    /\ call_headers' = hdrs
    /\ call_opts' = opts
    /\ used_opts' = request_options(opts, timeout, verify_ssl)
    /\ sent_headers' = merge_setting(hdrs, session_headers)
    /\ session_headers' = session_headers_after_request(hdrs, session_headers)
    /\ cookies' = cookies_after_response(cookies, set_cookie)
    /\ pool' = IF kept THEN 1 ELSE 0
    /\ results' = results + 1
    /\ UNCHANGED <<timeout, verify_ssl, proxies, reports, main_pc>>
    /\ UNCHANGED <<config, taskst, close_called, pc, callst, retryst, ghost, result,
                   poolst>>

\* a call with headers of its own and no other option
ScanCall ==
    \E hdrs \in CallerHeaders, set_cookie \in BOOLEAN, kept \in BOOLEAN :
        ScanRequest(hdrs, NoOptions, set_cookie, kept)

\* a call with options of its own and no headers
OptionsCall ==
    \E opts \in CallerOptions, kept \in BOOLEAN :
        ScanRequest(NoHeaders, opts, FALSE, kept)

\* the scan session closes the client it owns when it ends, however it ends
session_end_closes_client(how) == TRUE
\* the scanner has its results attribute from construction
scanner_has_results == TRUE

\* what main's handlers ask of the scanner when run() is left
main_reports_nothing(how, has_results, asked) == asked
main_reports(how, has_results, asked) ==
    IF how = "interrupted" /\ has_results THEN "partial" ELSE asked

\* scanner.run() is left: it returns, or KeyboardInterrupt or another
\* exception comes out of it
RunEnds(how) ==
    /\ main_pc = "scanning"
    /\ main_pc' = how
    /\ close_called' = (close_called \/ session_end_closes_client(how))
    /\ pool' = IF session_end_closes_client(how) THEN 0 ELSE pool
    /\ reports' = main_reports(how, scanner_has_results, reports)
    /\ UNCHANGED <<cookies, call_headers, sent_headers, call_opts,
                   used_opts, results>>
    /\ UNCHANGED <<config, taskst, pc, callst, retryst, ghost, result,
                   poolst, settings>>

RunReturns == RunEnds("completed")
RunInterrupted == RunEnds("interrupted")
RunRaises == RunEnds("failed")

\* the client as the command line configures it
SessionInit ==
    /\ Constructed
    /\ timeout \in {DefaultTimeout, 30}
    /\ verify_ssl \in BOOLEAN
    /\ proxies \in {NoProxy, OperatorProxy}
    /\ session_headers = default_headers(session_ua)
    /\ threads = 1
    /\ TasksIdle
    /\ PoolIdle
    /\ SessionIdle
    /\ CallIdle

SessionNext == ScanCall \/ RunReturns \/ RunInterrupted \/ RunRaises

SessionSpec == SessionInit /\ [][SessionNext]_vars

\* the client with the timeout and the TLS flag the command line gives
OptionsInit ==
    /\ Constructed
    /\ retries = MaxRetries
    /\ delay = 0
    /\ session_ua = OperatorUA
    /\ timeout \in {DefaultTimeout, 30}
    /\ verify_ssl \in BOOLEAN
    /\ proxies = NoProxy
    /\ session_headers = default_headers(session_ua)
    /\ threads = 1
    /\ TasksIdle
    /\ PoolIdle
    /\ SessionIdle
    /\ CallIdle

OptionsNext == OptionsCall

OptionsSpec == OptionsInit /\ [][OptionsNext]_vars

(* ------------------------------ claims -------------------------------- *)
\* the statuses the specification lists as retryable
RetryableStatuses == {429, 500, 502, 503, 504}

\* C1: whatever the transport does on any attempt (timeout, connection
\* error, too many redirects, any other fault), no exception escapes
\* get()/post(), and a call in which session.request raised returned Failure.
C1_FaultsBecomeFailure ==
    /\ ~raised
    /\ (pc = "idle" /\ fault # "none") => outcome = Failure

\* C1 witness: a fault outside the requests hierarchy, on a later attempt of
\* a call, came back to the caller as Failure.
C1_Witness ==
    /\ pc = "idle"
    /\ fault = "Other"
    /\ attempts >= 2
    /\ outcome = Failure

\* C2: a GET whose every exchange is answered 503 has made exactly
\* retries + 1 exchanges when the call returns.
C2_Always503Attempts ==
    (pc = "idle" /\ call_method = "GET" /\ all_answers = "503")
        => attempts = retries + 1

\* C2 witness: with retries = 3 such a GET returned after 4 exchanges.
C2_Witness ==
    /\ pc = "idle"
    /\ call_method = "GET"
    /\ all_answers = "503"
    /\ retries = 3
    /\ attempts = 4

\* C3 (as claimed): when the last exchange of a call received a response,
\* the call returns Success carrying that response's status.
C3_ResponseIsSuccess ==
    (pc = "idle" /\ last_answer.kind = "response")
        => outcome = Success(last_answer.status)

\* C4 (as claimed): a response with a status outside the retryable ones, to
\* the first exchange for a URL, is never retried, and unless it is a
\* redirect the call returns Success with that status.
C4_NonRetryableStatusNotRetried ==
    [][(/\ pc = "sending"
        /\ hop_attempts = 0
        /\ attempts' = attempts + 1
        /\ last_answer'.kind = "response"
        /\ last_answer'.status \notin RetryableStatuses)
       => /\ history' = 0
          /\ last_answer'.status \notin REDIRECT_STATI
                => (pc' = "idle" /\ outcome' = Success(last_answer'.status))]_vars

\* C4 (amended): the same, except for a 413 that carries a Retry-After
\* header while retries are left; the redirect that exceeds the redirect
\* limit ends the call at once with Failure; and a URL that cannot be
\* prepared ends the call with Failure before any exchange.
C4_NonRetryableAmended ==
    [][/\ (/\ pc = "sending"
           /\ hop_attempts = 0
           /\ attempts' = attempts + 1
           /\ last_answer'.kind = "response"
           /\ last_answer'.status \notin RetryableStatuses
           /\ ~(last_answer'.status = 413 /\ last_answer'.retry_after > 0
                /\ total > 0))
          => /\ history' = 0
             /\ hop_attempts' <= 1
             /\ last_answer'.status \notin REDIRECT_STATI
                   => (pc' = "idle" /\ outcome' = Success(last_answer'.status))
             /\ (last_answer'.status \in REDIRECT_STATI /\ redirects >= max_redirects)
                   => (pc' = "idle" /\ outcome' = Failure)
       /\ fault' = "InvalidURL"
             => (pc' = "idle" /\ attempts' = 0 /\ outcome' = Failure)]_vars

\* C4 witness: with retries configured, a 404 to the first exchange ended
\* the call as Success(404) after that one exchange.
C4_Witness ==
    /\ pc = "idle"
    /\ retries >= 1
    /\ attempts = 1
    /\ last_answer.kind = "response"
    /\ last_answer.status = 404
    /\ outcome = Success(404)

\* C5 (as claimed): an exchange made with POST is never retried.
C5_PostNotRetried ==
    method = "POST" => history = 0

\* C6 (as claimed): a call made after close() makes no network exchange and
\* returns Failure.
C6_NoExchangeAfterClose ==
    call_after_close
        => /\ attempts = 0
           /\ pc = "idle" => outcome = Failure

\* C7: a retryable failure is not surfaced while attempts remain: a call
\* that made an exchange returns Failure only when the exchanges allowed
\* for the URL are used up or the condition is not retryable, and a call
\* whose last exchange received a final (not retryable, not redirect)
\* status returns Success with it, whatever the earlier exchanges ended in.
C7_RetryableConsumed ==
    /\ (pc = "idle" /\ outcome = Failure /\ attempts > 0)
          => \/ hop_attempts = retries + 1
             \/ fault \in {"TooManyRedirects", "Other"}
    /\ (/\ pc = "idle"
        /\ last_answer.kind = "response"
        /\ last_answer.status \notin RetryableStatuses \cup REDIRECT_STATI)
          => outcome = Success(last_answer.status)

\* C7 witness: a call returned Success(404) from its third exchange for the
\* URL, the first two having been retried after a backoff.
C7_Witness ==
    /\ pc = "idle"
    /\ history = 2
    /\ hop_attempts = 3
    /\ sleeps[1].src = "backoff"
    /\ outcome = Success(404)

\* C8 (as claimed): the backoff slept before retry n is 0.5 s * 2^(n-1).
C8_BackoffFormula ==
    \A n \in 1..Len(sleeps) :
        sleeps[n].src = "backoff" => sleeps[n].d = 5 * Pow2(n - 1)

\* C8 (amended): the backoff slept before retry n of an exchange is 0 for
\* n = 1 and min(120 s, 0.5 s * 2^(n-1)) for n >= 2, and the backoffs are
\* non-decreasing.
C8_BackoffAmended ==
    /\ \A n \in 1..Len(sleeps) :
           sleeps[n].src = "backoff"
               => sleeps[n].d = IF n = 1 THEN 0
                                ELSE Min(1200, 5 * Pow2(n - 1))
    /\ \A i, j \in 1..Len(sleeps) :
           (i < j /\ sleeps[i].src = "backoff" /\ sleeps[j].src = "backoff")
               => sleeps[i].d <= sleeps[j].d

\* C8 witness: three backoffs were slept for one URL: 0 s, 1 s, 2 s.
C8_Witness ==
    /\ Len(sleeps) = 3
    /\ \A n \in 1..3 : sleeps[n].src = "backoff"
    /\ sleeps[1].d = 0
    /\ sleeps[2].d = 10
    /\ sleeps[3].d = 20

\* C9: the client's default identity is the operator's or one of the pool,
\* no step changes it, and every request of a call that passes no
\* User-Agent of its own is sent with it.
C9_IdentityConstant ==
    [][/\ session_ua \in user_agents \cup {OperatorUA}
       /\ session_ua' = session_ua
       /\ (sent_ua' # NoHeader /\ call_ua' = NoHeader)
             => sent_ua' = session_ua]_vars

\* C9 witness: the second call on a client with an auto-selected identity
\* has sent a request carrying that identity.
C9_Witness ==
    /\ calls = 2
    /\ attempts >= 1
    /\ session_ua \in user_agents
    /\ call_ua = NoHeader
    /\ sent_ua = session_ua

\* C10 (as claimed): a call whose exchanges all time out makes one exchange.
C10_TimeoutNotRepeated ==
    all_answers = "timeout" => attempts <= 1

\* C11 (as claimed): the outcome of a failed call identifies the reason, so
\* that two calls that failed for different reasons return different
\* outcomes.
C11_ReasonsDistinguishable ==
    [][(/\ pc = "idle"
        /\ pc' = "idle"
        /\ calls' = calls + 1
        /\ outcome.kind = "Failure"
        /\ outcome'.kind = "Failure"
        /\ fault' # fault)
       => outcome' # outcome]_vars

\* C18: a call that has entered session.request returns.
C18_CallReturns ==
    (pc = "sending") ~> (pc = "idle")

\* C18 witness: a call returned after the most exchanges the model allows:
\* every exchange for every URL of the call was made and retried.
C18_Witness ==
    /\ pc = "idle"
    /\ retries >= 2
    /\ redirects = max_redirects
    /\ attempts = (retries + 1) * (max_redirects + 1)

\* C20 (as claimed): a call never makes more than 1 + retries exchanges.
C20_AttemptsCapped ==
    attempts <= 1 + retries

\* C20 (amended): the exchanges made for one URL never exceed 1 + retries;
\* each redirect followed starts a new count, so that a call makes at most
\* (1 + retries) * (1 + redirects followed) exchanges.
C20_AttemptsPerUrlCapped ==
    /\ hop_attempts <= 1 + retries
    /\ attempts <= (1 + retries) * (1 + redirects)
    /\ redirects <= max_redirects

\* C20 witness: a call that followed a redirect has made more than
\* 1 + retries exchanges, 1 + retries of them for the second URL.
C20_Witness ==
    /\ redirects = 1
    /\ retries = 2
    /\ hop_attempts = 3
    /\ attempts = 6

\* C13: when every slot of the pool is in use, a further concurrent request
\* opens no connection beyond the configured bound: the connections the
\* client has open (in an exchange or idle in the pool) never number more
\* than pool_maxsize.
C13_NoConnectionBeyondBound == in_use + pool <= pool_maxsize

\* C12: the pool never holds more than pool_maxsize connections, and the
\* connection of a completed exchange goes back to the pool unless it is
\* unusable: no usable connection is dropped.
C12_PoolBoundedAndReturned ==
    /\ pool <= pool_maxsize
    /\ conn_event # "gave_discarded"

\* C14: a request that follows a completed request to the same route, whose
\* connection went back to the pool, takes that connection and opens none.
C14_SequentialReuse ==
    [][(conn_event = "gave_pooled" /\ in_use' = in_use + 1)
       => /\ conn_event' = "took_pooled"
          /\ pool' = pool - 1
          /\ in_use' + pool' = in_use + pool]_vars

\* the second of two sequential requests runs on the connection of the first
C14_Witness ==
    /\ conn_event = "took_pooled"
    /\ in_use = 1
    /\ pool = 0
    /\ empty_slots = pool_maxsize - 1

\* C15: once close() has been called while requests were in flight, those
\* requests fail fast (none of them returns a response) and no pooled
\* connection remains held by the client.
C15_CloseFailsInFlight ==
    close_called => (pool = 0 /\ outcome.kind # "Success")

\* C16: the headers a request is sent with are the client's default headers
\* merged with the caller's per-call headers, the caller's value winning
\* where both set a header; the defaults themselves stay as constructed.
C16_HeadersMerged ==
    results > 0 =>
        /\ \A h \in HeaderNames :
              sent_headers[h] = IF call_headers[h] # NoHeader
                                THEN call_headers[h]
                                ELSE default_headers(session_ua)[h]
        /\ session_headers = default_headers(session_ua)

\* a call that overrides one default, adds one header and leaves one default
C16_Witness ==
    /\ results > 0
    /\ call_headers["User-Agent"] = CallerValue
    /\ call_headers["X-Probe"] = CallerValue
    /\ call_headers["Accept"] = NoHeader
    /\ sent_headers["User-Agent"] = CallerValue
    /\ sent_headers["X-Probe"] = CallerValue
    /\ sent_headers["Accept"] = "text/html,application/xhtml+xml"
    /\ session_headers["User-Agent"] = session_ua

\* C17 as stated: no step changes any client state that later requests
\* depend on: timeout, delay, retry count, TLS flag, default headers,
\* proxy, nor any other session state (the cookie jar).
C17_NoSessionStateChanges ==
    [][/\ config' = config
       /\ settings' = settings
       /\ cookies' = cookies]_vars

\* C17 amended: no step changes the timeout, the delay, the retry count,
\* the TLS flag, the default headers or the proxy setting.
C17_ConfigurationUnchanged ==
    [][/\ config' = config
       /\ settings' = settings]_vars

\* two calls made, one with its own headers, a cookie kept, on a client
\* configured away from the defaults
C17_Witness ==
    /\ results >= 2
    /\ cookies
    /\ call_headers["User-Agent"] = CallerValue
    /\ timeout = 30
    /\ proxies = OperatorProxy
    /\ session_headers = default_headers(session_ua)

C22_PacedOnceBeforeFirstAttempt ==
    [][/\ calls' = calls + 1
          => (paced' = (IF delay > 0 THEN 1 ELSE 0) /\ attempts' = 0)
       /\ calls' = calls => paced' = paced]_vars

\* a paced call that went through retries still slept the delay once
C22_Witness ==
    /\ delay > 0
    /\ paced = 1
    /\ history >= 2
    /\ attempts >= 3

\* C23: while a task sleeps in its pacing delay, any other task that is
\* about to call can start its own call and pacing sleep, and any other
\* task in its pacing sleep can go on to its exchange: the sleeping task
\* holds nothing they wait for.
C23_PacingHoldsNoLock ==
    \A t \in Tasks : \A u \in Tasks \ {t} :
        task_pc[t] = "pacing"
            => /\ (task_pc[u] = "idle" /\ task_calls[u] < MaxCalls)
                     => ENABLED TaskCall(u)
               /\ task_pc[u] = "pacing" => ENABLED TaskWake(u)

\* one task is still in the pacing sleep of its first call while another
\* has finished a call and is in the exchange of its second
C23_Witness ==
    /\ delay > 0
    /\ \E t \in Tasks : \E u \in Tasks \ {t} :
          /\ task_pc[t] = "pacing"
          /\ task_calls[t] = 1
          /\ task_pc[u] = "sending"
          /\ task_calls[u] = 2

\* C24: each call is sent with the caller's timeout, allow_redirects,
\* verify and stream where the caller passed them, and otherwise with the
\* client's timeout, redirects on, the client's TLS flag and streaming
\* off; the call leaves the client's timeout and TLS flag as they were, so
\* an override lasts for its own call only.
C24_OptionDefaults ==
    [][results' = results + 1
       => /\ used_opts'.timeout =
                 IF call_opts'.timeout # << >> THEN call_opts'.timeout[1]
                 ELSE timeout
          /\ used_opts'.allow_redirects =
                 IF call_opts'.allow_redirects # << >>
                 THEN call_opts'.allow_redirects[1] ELSE TRUE
          /\ used_opts'.verify =
                 IF call_opts'.verify # << >> THEN call_opts'.verify[1]
                 ELSE verify_ssl
          /\ used_opts'.stream =
                 IF call_opts'.stream # << >> THEN call_opts'.stream[1]
                 ELSE FALSE
          /\ timeout' = timeout
          /\ verify_ssl' = verify_ssl]_vars

\* a second call that overrides the timeout and the redirects and leaves
\* verify and stream to the client, configured with verification on
C24_Witness ==
    /\ results >= 2
    /\ verify_ssl
    /\ call_opts.timeout = <<5>>
    /\ used_opts.timeout = 5
    /\ call_opts.allow_redirects = <<FALSE>>
    /\ ~used_opts.allow_redirects
    /\ call_opts.verify = << >>
    /\ used_opts.verify
    /\ call_opts.stream = << >>
    /\ ~used_opts.stream

====
